---- MODULE Spec2Model ----
(***************************************************************************)
(* A model of covid19.py: get_data, clean_data, compare and fit.           *)
(*                                                                         *)
(* A DataFrame is a record [columns, rows]: the column names in order and  *)
(* the rows in order, each row a record keyed by column name.  A Series is *)
(* a sequence of [Date, Value] entries (index label and value).  An        *)
(* optional argument is a sequence of length 0 (None) or 1 (the value).    *)
(***************************************************************************)
EXTENDS Integers, Sequences, FiniteSets, TLC

VARIABLES
    table,      \* the caller's DataFrame, passed as `data`
    args,       \* the arguments of the last call
    grouped,    \* clean_data's local `data` after line 54: the object it
                \* names ("caller" for the caller's own frame) and its content
    ret,        \* what the last call returned (NoRet when it raised)
    outcome,    \* how the last call ended: "returned" or the error raised
    figures,    \* the numbers of the figures pyplot holds open
    files,      \* the image files written so far
    solved,     \* whether the last fit call ran the least-squares solver
    csv,        \* the source get_data reads
    pc          \* which call, if any, has completed

vars == <<table, args, grouped, ret, outcome, figures, files, solved, csv, pc>>

----------------------------------------------------------------------------
(* Bounds and input sets *)

MaxDate == 3

Dates == 1..MaxDate

\* pd.datetime.now(): a timestamp that is no Date of the table
Now == MaxDate + 1

CountryOrder == <<"A", "">>

Countries == {CountryOrder[i] : i \in DOMAIN CountryOrder}

\* (Confirmed, Deaths, Recovered) of one raw row
Triples == {<<1, 0, 0>>, <<2, 1, 2>>}

None == <<>>

Some(x) == <<x>>

CountryArgs == {None, Some("A"), Some("")}

ThresholdArgs == {None, Some(<<2, 1, 1>>), Some(<<1, 0, -1>>)}

LastminuteArgs == {None, Some(<<0, 0, 0>>), Some(<<2, 1, 0>>)}

----------------------------------------------------------------------------
(* Python and pandas primitives *)

\* bool(x) of an optional str: None and '' are false
TruthyStr(o) == o # None /\ o[1] # ""

\* a truth test that also takes an all-zero tuple for false
TruthyTupleAny(o) == o # None /\ \E i \in DOMAIN o[1] : o[1][i] # 0

\* bool(x) of an optional tuple: None and () are false
TruthyTuple(o) == o # None /\ Len(o[1]) > 0

RawColumns == <<"Date", "Country", "Confirmed", "Deaths", "Recovered">>

RawRow(d, c, t) ==
    [Date |-> d, Country |-> c, Confirmed |-> t[1], Deaths |-> t[2], Recovered |-> t[3]]

\* data[data['Country'] == country]: a new frame with the matching rows
FilterCountry(df, country) ==
    [columns |-> df.columns,
     rows |-> SelectSeq(df.rows, LAMBDA r : r.Country = country)]

RECURSIVE SumColumn(_, _, _)
\* sum of column col over the rows whose Date is d
SumColumn(rows, d, col) ==
    IF rows = <<>> THEN 0
    ELSE (IF Head(rows).Date = d THEN Head(rows)[col] ELSE 0)
         + SumColumn(Tail(rows), d, col)

RECURSIVE SortedKeys(_)
\* the group keys in ascending order
SortedKeys(S) ==
    IF S = {} THEN <<>>
    ELSE LET m == CHOOSE x \in S : \A y \in S : x <= y
         IN  <<m>> \o SortedKeys(S \ {m})

\* data.groupby('Date').sum(): a new frame indexed by Date, one row per
\* distinct date in ascending order, the numeric columns summed
GroupByDateSum(df) ==
    LET keys == SortedKeys({df.rows[i].Date : i \in DOMAIN df.rows})
    IN  [columns |-> <<"Confirmed", "Deaths", "Recovered">>,
         rows |-> [i \in DOMAIN keys |->
                    [Date |-> keys[i],
                     Confirmed |-> SumColumn(df.rows, keys[i], "Confirmed"),
                     Deaths |-> SumColumn(df.rows, keys[i], "Deaths"),
                     Recovered |-> SumColumn(df.rows, keys[i], "Recovered")]]]

\* Active without the recovered term
ActiveNoRecovered(r) == r.Confirmed - r.Deaths

ActiveOfRow(r) == r.Confirmed - r.Deaths - r.Recovered

\* data['Active'] = ...: the frame object gains (or overwrites) column Active
SetActive(df) ==
    [columns |-> IF \E i \in DOMAIN df.columns : df.columns[i] = "Active"
                 THEN df.columns ELSE Append(df.columns, "Active"),
     rows |-> [i \in DOMAIN df.rows |->
                [f \in DOMAIN df.rows[i] \cup {"Active"} |->
                    IF f = "Active" THEN ActiveOfRow(df.rows[i])
                    ELSE df.rows[i][f]]]]

\* a mask that lets every row pass
KeepsAll(v, th) == TRUE

Keeps(v, th) == v >= th

RECURSIVE LocColumn(_, _, _)
\* data.loc[data[col] >= th, col]: the Series of the rows passing the mask
LocColumn(rows, col, th) ==
    IF rows = <<>> THEN <<>>
    ELSE (IF Keeps(Head(rows)[col], th)
          THEN <<[Date |-> Head(rows).Date, Value |-> Head(rows)[col]]>>
          ELSE <<>>)
         \o LocColumn(Tail(rows), col, th)

RECURSIVE DropFrom(_, _)
DropFrom(s, seen) ==
    IF s = <<>> THEN <<>>
    ELSE IF Head(s).Value \in seen THEN DropFrom(Tail(s), seen)
    ELSE <<Head(s)>> \o DropFrom(Tail(s), seen \cup {Head(s).Value})

RECURSIVE DropRuns(_)
\* a dedup that drops only a value equal to the one just before it
DropRuns(s) ==
    IF Len(s) < 2 THEN s
    ELSE IF s[1].Value = s[2].Value THEN DropRuns(<<s[1]>> \o Tail(Tail(s)))
    ELSE <<s[1]>> \o DropRuns(Tail(s))

\* Series.drop_duplicates(): keep='first'
DropDuplicates(s) == DropFrom(s, {})

\* series[key] = value with a key that is not in the index: enlargement
SetNew(s, key, value) == Append(s, [Date |-> key, Value |-> value])

----------------------------------------------------------------------------
(* clean_data *)

\* lines 46-47
ThresholdOrDefault(threshold) ==
    IF threshold = None THEN <<0, 0, 0>> ELSE threshold[1]

\* lines 49-50: which object `data` names afterwards, and its content
AfterFilter(df, country) ==
    IF TruthyStr(country)
    THEN [obj |-> "new", frame |-> FilterCountry(df, country[1])]
    ELSE [obj |-> "caller", frame |-> df]

\* an aggregation that rewrites the object it is given
GroupByInPlace(x) == [obj |-> x.obj, frame |-> GroupByDateSum(x.frame)]

\* line 52: groupby().sum() returns a new object
AfterGroupBy(x) == [obj |-> "new", frame |-> GroupByDateSum(x.frame)]

\* line 54: the assignment acts on the object `data` names
AfterActive(x) == [obj |-> x.obj, frame |-> SetActive(x.frame)]

CleanFrame(df, country) == AfterActive(AfterGroupBy(AfterFilter(df, country)))

\* lines 56-58
Filtered(g, col, th) == DropDuplicates(LocColumn(g.rows, col, th))

\* lines 61-63: the value each series receives
LastValue(lm, which) ==
    CASE which = "confirmed" -> lm[1]
      [] which = "deaths" -> lm[2]
      [] which = "active" -> lm[1] - lm[2] - lm[3]

\* lines 60-63
WithLastminute(s, lastminute, which) ==
    IF TruthyTuple(lastminute)
    THEN SetNew(s, Now, LastValue(lastminute[1], which))
    ELSE s

\* lines 56-65 on the frame g that line 54 leaves
CleanSeries(g, threshold, lastminute) ==
    LET th == ThresholdOrDefault(threshold)
    IN  [confirmed |-> WithLastminute(Filtered(g, "Confirmed", th[1]), lastminute, "confirmed"),
         deaths |-> WithLastminute(Filtered(g, "Deaths", th[2]), lastminute, "deaths"),
         active |-> WithLastminute(Filtered(g, "Active", th[3]), lastminute, "active")]

\* the returned triple, lines 46-65
clean_data(df, country, threshold, lastminute) ==
    CleanSeries(CleanFrame(df, country).frame, threshold, lastminute)

\* the caller's frame once clean_data returns, x being the local `data`:
\* changed only if line 54 acted on the caller's object
CallerAfter(df, x) == IF x.obj = "caller" THEN x.frame ELSE df

----------------------------------------------------------------------------
(* The tables a caller can hold: one row per (date, region), in file order *)

Cells == [Dates \X Countries -> Triples]

RECURSIVE RowsOf(_, _)
RowsOf(cell, keys) ==
    IF keys = <<>> THEN <<>>
    ELSE <<RawRow(keys[1][1], keys[1][2], cell[keys[1]])>> \o RowsOf(cell, Tail(keys))

FileOrder ==
    LET n == Len(CountryOrder)
    IN  [i \in 1..(MaxDate * n) |->
            <<((i - 1) \div n) + 1, CountryOrder[((i - 1) % n) + 1]>>]

Tables == {[columns |-> RawColumns, rows |-> RowsOf(cell, FileOrder)] : cell \in Cells}


NoArgs == [country |-> None, threshold |-> None, lastminute |-> None]

NoFrame == [obj |-> "none", frame |-> [columns |-> <<>>, rows |-> <<>>]]

NoRet == [confirmed |-> <<>>, deaths |-> <<>>, active |-> <<>>]

NoCsv == [reachable |-> FALSE, header |-> <<>>, lines |-> <<>>]

CleanDataCall ==
    \E country \in CountryArgs, threshold \in ThresholdArgs, lastminute \in LastminuteArgs :
        /\ args' = [country |-> country, threshold |-> threshold, lastminute |-> lastminute]
        /\ grouped' = CleanFrame(table, country)
        /\ ret' = CleanSeries(grouped'.frame, threshold, lastminute)
        /\ table' = CallerAfter(table, grouped')
        /\ outcome' = "returned"
        /\ pc' = "clean_data"
        /\ UNCHANGED <<figures, files, solved, csv>>

----------------------------------------------------------------------------
(* pyplot's figure registry and the file system *)

MaxFigures == 2

\* plt.subplots(): pyplot registers a new figure under the next free number
NewFigure(open) ==
    IF open = {} THEN 1
    ELSE (CHOOSE n \in open : \A m \in open : m <= n) + 1

Subplots(open) == open \cup {NewFigure(open)}

\* fig.savefig(path)
SaveFig(written, path) == written \cup {path}

----------------------------------------------------------------------------
(* compare *)

CountryLists == {<<"A">>, <<"", "B">>}

CompareThresholdArgs == {None, Some(<<2, 1, 1>>)}

ComparePath == <<"c", ".", "p", "n", "g">>

\* lines 80-81
CompareThreshold(threshold) ==
    IF threshold = None THEN <<100, 10, 100>> ELSE threshold[1]

\* line 83: one clean_data result per region
CompareValues(df, countries, threshold) ==
    [i \in DOMAIN countries |->
        clean_data(df, Some(countries[i]), Some(CompareThreshold(threshold)), None)]

RECURSIVE CallerAfterAll(_, _)
\* line 83: the caller's frame after the calls of clean_data
CallerAfterAll(df, countries) ==
    IF countries = <<>> THEN df
    ELSE CallerAfterAll(CallerAfter(df, CleanFrame(df, Some(Head(countries)))),
                        Tail(countries))

\* what the environment lets a call do once its figure exists: the drawing
\* calls raise, savefig raises, or nothing does
Failures == {"none", "render", "save"}

CompareCall ==
    \E countries \in CountryLists, threshold \in CompareThresholdArgs,
       failure \in Failures :
        /\ Cardinality(figures) < MaxFigures
        /\ args' = [countries |-> countries, threshold |-> threshold,
                    filename |-> ComparePath]
        /\ table' = CallerAfterAll(table, countries)
        /\ grouped' = NoFrame
        /\ figures' = Subplots(figures)
        /\ files' = IF failure = "none" THEN SaveFig(files, ComparePath) ELSE files
        /\ outcome' = CASE failure = "render" -> "RenderError"
                        [] failure = "save" -> "IOError"
                        [] OTHER -> "returned"
        /\ ret' = IF failure = "none"
                  THEN [values |-> CompareValues(table, countries, threshold)]
                  ELSE NoRet
        /\ pc' = "compare"
        /\ UNCHANGED <<solved, csv>>

----------------------------------------------------------------------------
(* fit *)

\* parameter vectors: bounds, guesses and solutions of a two-parameter model
Vectors == {<<0, 0>>, <<1, 1>>, <<0, 2>>}

GuessArgs == {None, Some(<<1, 1>>), Some(<<0, 2>>)}

\* the series handed to fit: one metric's output of clean_data
FitSeries ==
    {<<[Date |-> 1, Value |-> 1]>>,
     <<[Date |-> 1, Value |-> 1], [Date |-> 3, Value |-> 2]>>}

Titles == {<<"M">>, <<"M", " ", "x">>}

FiguresDir == <<"f", "/">>

\* str.lower() on the characters the titles use
Lower(c) == IF c = "M" THEN "m" ELSE c

\* title.lower().replace(' ', '_')
Slug(title) ==
    [i \in DOMAIN title |-> IF Lower(title[i]) = " " THEN "_" ELSE Lower(title[i])]

\* line 138
FitRoute(route, title) == route \o Slug(title) \o <<".", "p", "n", "g">>

InBox(v, lb, ub) == \A i \in DOMAIN v : lb[i] <= v[i] /\ v[i] <= ub[i]

\* the checks curve_fit makes on its arguments before it iterates (line 141;
\* scipy's least_squares): every lower bound strictly below its upper bound,
\* and the initial guess, when given, inside the bounds
FitArgsValid(lb, ub, guess) ==
    /\ \A i \in DOMAIN lb : lb[i] < ub[i]
    /\ IF guess = None THEN TRUE ELSE InBox(guess[1], lb, ub)

\* a fit that opens its figure before it calls curve_fit
FiguresOpenedFirst(open) == Subplots(open)

\* the figures open when line 141 raises: line 146 has not run
FiguresAtFitError(open) == open

\* line 141 raises ValueError: nothing after it runs
FitInvalid ==
    \E values \in FitSeries, lb \in Vectors, ub \in Vectors, guess \in GuessArgs,
       title \in Titles :
        /\ ~FitArgsValid(lb, ub, guess)
        /\ args' = [values |-> values, lbounds |-> lb, gbounds |-> ub, guess |-> guess,
                    title |-> title]
        /\ solved' = FALSE
        /\ outcome' = "ValueError"
        /\ ret' = NoRet
        /\ grouped' = NoFrame
        /\ figures' = FiguresAtFitError(figures)
        /\ pc' = "fit"
        /\ UNCHANGED <<table, files, csv>>

\* line 141 raises RuntimeError: the solver ran and did not converge
FitNoConvergence ==
    \E values \in FitSeries, lb \in Vectors, ub \in Vectors, guess \in GuessArgs,
       title \in Titles :
        /\ FitArgsValid(lb, ub, guess)
        /\ args' = [values |-> values, lbounds |-> lb, gbounds |-> ub, guess |-> guess,
                    title |-> title]
        /\ solved' = TRUE
        /\ outcome' = "RuntimeError"
        /\ ret' = NoRet
        /\ grouped' = NoFrame
        /\ figures' = FiguresAtFitError(figures)
        /\ pc' = "fit"
        /\ UNCHANGED <<table, files, csv>>

\* line 141 returns sol; lines 146-175
FitDrawn ==
    \E values \in FitSeries, lb \in Vectors, ub \in Vectors, guess \in GuessArgs,
       title \in Titles, sol \in Vectors, failure \in Failures :
        /\ Cardinality(figures) < MaxFigures
        /\ FitArgsValid(lb, ub, guess)
        /\ InBox(sol, lb, ub)
        /\ args' = [values |-> values, lbounds |-> lb, gbounds |-> ub, guess |-> guess,
                    title |-> title]
        /\ solved' = TRUE
        /\ figures' = Subplots(figures)
        /\ files' = IF failure = "none"
                    THEN SaveFig(files, FitRoute(FiguresDir, title)) ELSE files
        /\ outcome' = CASE failure = "render" -> "RenderError"
                        [] failure = "save" -> "IOError"
                        [] OTHER -> "returned"
        /\ ret' = IF failure = "none" THEN [sol |-> sol] ELSE NoRet
        /\ grouped' = NoFrame
        /\ pc' = "fit"
        /\ UNCHANGED <<table, csv>>

----------------------------------------------------------------------------
(* get_data.  Here a frame's rows are sequences of cells aligned with its  *)
(* columns (renaming can give two columns one name); a cell is a record    *)
(* [kind, val]: "nan" (blank), "num" <<n>>, "str", "text" <<a, b, year>>   *)
(* (a date string a/b/year) or "timestamp" <<year, month, day>>.           *)

MaxLines == 2

ColumnPool == <<"Date", "Fecha", "Country", "Confirmed", "Deaths", "Recovered", "Lat">>

DateLabels == {"Date", "Fecha"}

ConfirmedLabels == {"Confirmed", "Lat", "Deaths"}

LineKinds == {"full", "blank", "baddate"}

\* the cell a line of the given kind holds under a column
CellOf(name, kind) ==
    IF name \in {"Date", "Fecha"}
    THEN [kind |-> "text",
          val |-> CASE kind = "full" -> <<1, 2, 2020>>
                    [] kind = "blank" -> <<13, 2, 2020>>
                    [] kind = "baddate" -> <<13, 13, 2020>>]
    ELSE IF name = "Country" THEN [kind |-> "str", val |-> <<>>]
    ELSE IF kind = "blank" THEN [kind |-> "nan", val |-> <<>>]
    ELSE [kind |-> "num", val |-> <<7>>]

Headers ==
    {[i \in DOMAIN SortedKeys(S) |-> ColumnPool[SortedKeys(S)[i]]] :
        S \in SUBSET (DOMAIN ColumnPool)}

RECURSIVE Seqs(_, _)
\* the sequences over S of length at most n
Seqs(S, n) ==
    IF n = 0 THEN {<<>>}
    ELSE Seqs(S, n - 1) \cup {Append(q, x) : q \in {r \in Seqs(S, n - 1) : Len(r) = n - 1}, x \in S}

Sources ==
    {[reachable |-> TRUE, header |-> h,
      lines |-> [k \in DOMAIN ks |-> [i \in DOMAIN h |-> CellOf(h[i], ks[k])]]] :
        h \in Headers, ks \in Seqs(LineKinds, MaxLines)}

\* line 27, skipfooter: the data lines without the last n
SkipFooter(lines, n) ==
    IF n >= Len(lines) THEN <<>> ELSE SubSeq(lines, 1, Len(lines) - n)

\* line 27, fillna(0)
FillNa(cell) == IF cell.kind = "nan" THEN [kind |-> "num", val |-> <<0>>] ELSE cell

\* line 27
ReadCsv(src, drop_last) ==
    [columns |-> src.header,
     rows |-> [k \in DOMAIN SkipFooter(src.lines, drop_last) |->
                [i \in DOMAIN src.header |-> FillNa(src.lines[k][i])]]]

\* lines 28-29: the dict literal of rename, a later key replacing an equal
\* earlier one
RenameMap(labels) ==
    LET keys == <<labels.date, labels.country, labels.confirmed, labels.deaths,
                  labels.recovered>>
        last(c) == CHOOSE i \in DOMAIN keys :
                       keys[i] = c /\ \A j \in DOMAIN keys : keys[j] = c => j <= i
    IN  [c \in {keys[i] : i \in DOMAIN keys} |->
            <<"Date", "Country", "Confirmed", "Deaths", "Recovered">>[last(c)]]

\* a rename that leaves every name as it is
RenameNothing(c, labels) == c

\* lines 28-29: the new name of column c
RenameColumn(c, labels) ==
    IF c \in DOMAIN RenameMap(labels) THEN RenameMap(labels)[c] ELSE c

Rename(df, labels) ==
    [columns |-> [i \in DOMAIN df.columns |-> RenameColumn(df.columns[i], labels)],
     rows |-> df.rows]

\* the positions of the columns named name
Positions(columns, name) == {i \in DOMAIN columns : columns[i] = name}

\* a/b/year read month-first unless dayfirst; when that gives no month the
\* other order is taken
Parsable(t) == t[1] <= 12 \/ t[2] <= 12

ParseDate(t, dayfirst) ==
    IF (dayfirst /\ t[2] <= 12) \/ t[1] > 12
    THEN <<t[3], t[2], t[1]>>
    ELSE <<t[3], t[1], t[2]>>

\* a lookup that skips the conversion when there is no Date column
DateLookupLenient(df, dayfirst) ==
    IF Positions(df.columns, "Date") = {} THEN "returned"
    ELSE IF Cardinality(Positions(df.columns, "Date")) > 1 THEN "ValueError"
    ELSE "returned"

\* line 30: how df['Date'] and pd.to_datetime end
DateLookup(df, dayfirst) ==
    LET P == Positions(df.columns, "Date")
    IN  IF P = {} THEN "KeyError"
        ELSE IF Cardinality(P) > 1 THEN "ValueError"
        ELSE IF \E k \in DOMAIN df.rows : \E i \in P : ~Parsable(df.rows[k][i].val)
        THEN "ValueError"
        ELSE "returned"

\* line 30: the frame with its Date column converted
ToDatetime(df, dayfirst) ==
    [columns |-> df.columns,
     rows |-> [k \in DOMAIN df.rows |-> [i \in DOMAIN df.columns |->
                IF df.columns[i] = "Date"
                THEN [kind |-> "timestamp", val |-> ParseDate(df.rows[k][i].val, dayfirst)]
                ELSE df.rows[k][i]]]]

Labels(date_label, confirmed_label) ==
    [date |-> date_label, country |-> "Country", confirmed |-> confirmed_label,
     deaths |-> "Deaths", recovered |-> "Recovered"]

\* line 27 raises: the source cannot be read, or holds no columns
GetDataUnread ==
    \E date_label \in DateLabels, confirmed_label \in ConfirmedLabels,
       dayfirst \in BOOLEAN, drop_last \in 0..1 :
        /\ ~csv.reachable \/ csv.header = <<>>
        /\ args' = [labels |-> Labels(date_label, confirmed_label),
                    dayfirst |-> dayfirst, drop_last |-> drop_last]
        /\ outcome' = IF csv.reachable THEN "EmptyDataError" ELSE "IOError"
        /\ ret' = NoRet
        /\ pc' = "get_data"
        /\ UNCHANGED <<table, grouped, figures, files, solved, csv>>

\* lines 27-31 once the source is read
GetDataRead ==
    \E date_label \in DateLabels, confirmed_label \in ConfirmedLabels,
       dayfirst \in BOOLEAN, drop_last \in 0..1 :
        LET labels == Labels(date_label, confirmed_label)
            df == Rename(ReadCsv(csv, drop_last), labels)
        IN  /\ csv.reachable /\ csv.header # <<>>
            /\ args' = [labels |-> labels, dayfirst |-> dayfirst, drop_last |-> drop_last]
            /\ outcome' = DateLookup(df, dayfirst)
            /\ ret' = IF outcome' = "returned" THEN ToDatetime(df, dayfirst) ELSE NoRet
            /\ pc' = "get_data"
            /\ UNCHANGED <<table, grouped, figures, files, solved, csv>>

----------------------------------------------------------------------------

Init ==
    /\ table \in Tables
    /\ args = NoArgs
    /\ grouped = NoFrame
    /\ ret = NoRet
    /\ outcome = "none"
    /\ figures = {}
    /\ files = {}
    /\ solved = FALSE
    /\ csv = NoCsv
    /\ pc = "start"

Next ==
    \/ CleanDataCall
    \/ CompareCall

Spec == Init /\ [][Next]_vars

\* compare and fit on a table whose rows all hold the same counts
UniformTable(t) ==
    [columns |-> RawColumns,
     rows |-> RowsOf([k \in Dates \X Countries |-> t], FileOrder)]

InitPlot ==
    /\ table \in {UniformTable(t) : t \in Triples}
    /\ args = NoArgs
    /\ grouped = NoFrame
    /\ ret = NoRet
    /\ outcome = "none"
    /\ figures = {}
    /\ files = {}
    /\ solved = FALSE
    /\ csv = NoCsv
    /\ pc = "start"

NextPlot ==
    \/ CompareCall
    \/ FitInvalid
    \/ FitNoConvergence
    \/ FitDrawn

SpecPlot == InitPlot /\ [][NextPlot]_vars

InitLoad ==
    /\ csv \in Sources \cup {NoCsv}
    /\ table = [columns |-> <<>>, rows |-> <<>>]
    /\ args = NoArgs
    /\ grouped = NoFrame
    /\ ret = NoRet
    /\ outcome = "none"
    /\ figures = {}
    /\ files = {}
    /\ solved = FALSE
    /\ pc = "start"

NextLoad ==
    \/ GetDataUnread
    \/ GetDataRead

SpecLoad == InitLoad /\ [][NextLoad]_vars

----------------------------------------------------------------------------
(* Claims about clean_data *)

Cleaned == pc = "clean_data"

Metrics == {"confirmed", "deaths", "active"}

ColumnOf(m) ==
    CASE m = "confirmed" -> "Confirmed" [] m = "deaths" -> "Deaths" [] m = "active" -> "Active"

\* the threshold the claims name for metric m: the one given, else 0
Theta(m) ==
    LET i == CASE m = "confirmed" -> 1 [] m = "deaths" -> 2 [] m = "active" -> 3
    IN  IF args.threshold = None THEN 0 ELSE args.threshold[1][i]

C2_FirstOccurrences ==
    (Cleaned /\ args.lastminute = None) =>
        \A m \in Metrics :
            LET s == ret[m]
                g == grouped.frame.rows
                col == ColumnOf(m)
            IN  /\ \A i, j \in DOMAIN s :
                    i < j => (s[i].Value # s[j].Value /\ s[i].Date < s[j].Date)
                /\ \A i \in DOMAIN s : \E k \in DOMAIN g :
                    /\ g[k].Date = s[i].Date
                    /\ g[k][col] = s[i].Value
                    /\ g[k][col] >= Theta(m)
                    /\ \A e \in 1..(k - 1) : g[e][col] # s[i].Value
                /\ \A k \in DOMAIN g :
                    g[k][col] >= Theta(m) => \E i \in DOMAIN s : s[i].Value = g[k][col]

\* a value that comes back after a different one (as in 10, 20, 10) and is
\* retained once
C2_Witness ==
    /\ Cleaned /\ args.lastminute = None
    /\ LET g == grouped.frame.rows
       IN  /\ Len(g) >= 3
           /\ g[1].Confirmed = g[3].Confirmed /\ g[1].Confirmed # g[2].Confirmed
           /\ g[1].Confirmed >= Theta("confirmed") /\ g[2].Confirmed >= Theta("confirmed")
    /\ Len(ret.confirmed) = 2

RECURSIVE SumOver(_, _, _)
\* the sum of column col over the rows of t indexed by I
SumOver(t, I, col) ==
    IF I = {} THEN 0
    ELSE LET i == CHOOSE x \in I : TRUE
         IN  t[i][col] + SumOver(t, I \ {i}, col)

\* the rows of the table a call with region argument c is to use
RowsUsed(c, d) ==
    {i \in DOMAIN table.rows :
        /\ table.rows[i].Date = d
        /\ IF c = None THEN TRUE ELSE table.rows[i].Country = c[1]}

\* C3: the aggregated frame has one row per date of the rows used (those of
\* the region when a label is given, all rows when it is omitted), holding
\* the sums of Confirmed, Deaths and Recovered over them; for every label a
\* table can contain, the empty string included.
C3_RegionSums ==
    Cleaned =>
        LET g == grouped.frame.rows
        IN  /\ \A k \in DOMAIN g : RowsUsed(args.country, g[k].Date) # {}
            /\ \A d \in Dates : RowsUsed(args.country, d) # {} =>
                    \E k \in DOMAIN g :
                        /\ g[k].Date = d
                        /\ \A col \in {"Confirmed", "Deaths", "Recovered"} :
                            g[k][col] = SumOver(table.rows, RowsUsed(args.country, d), col)

\* C4: in the aggregated frame the Active of every date is that date's
\* Confirmed minus Deaths minus Recovered, all three the per-date sums.
C4_ActiveDerived ==
    Cleaned =>
        /\ \E i \in DOMAIN grouped.frame.columns : grouped.frame.columns[i] = "Active"
        /\ \A k \in DOMAIN grouped.frame.rows :
            LET r == grouped.frame.rows[k]
            IN  r.Active = r.Confirmed - r.Deaths - r.Recovered

\* a global call over a date whose rows sum to deaths and recovered above 0
C4_Witness ==
    /\ Cleaned /\ args.country = None
    /\ \E k \in DOMAIN grouped.frame.rows :
        LET r == grouped.frame.rows[k]
        IN  r.Confirmed = 3 /\ r.Deaths = 1 /\ r.Recovered = 2 /\ r.Active = 0

\* C5: with a manual tuple each returned series is the series of the same
\* call without it, plus one final entry: confirmed, deaths, and
\* confirmed - deaths - recovered.
C5_ManualAppended ==
    (Cleaned /\ args.lastminute # None) =>
        LET base == clean_data(table, args.country, args.threshold, None)
            lm == args.lastminute[1]
            want == [confirmed |-> lm[1], deaths |-> lm[2], active |-> lm[1] - lm[2] - lm[3]]
        IN  \A m \in Metrics :
                /\ Len(ret[m]) = Len(base[m]) + 1
                /\ SubSeq(ret[m], 1, Len(base[m])) = base[m]
                /\ ret[m][Len(ret[m])].Value = want[m]
                /\ \A i \in DOMAIN base[m] : base[m][i].Date # ret[m][Len(ret[m])].Date

\* a tuple of zeros under the default thresholds: its deaths value 0 is
\* already in the series and is appended all the same
C5_Witness ==
    /\ Cleaned /\ args.lastminute = Some(<<0, 0, 0>>) /\ args.threshold = None
    /\ Len(ret.deaths) >= 2
    /\ ret.deaths[1].Value = 0
    /\ ret.deaths[Len(ret.deaths)].Value = 0

\* C10: no call of clean_data or compare changes the caller's table.
C10_TableUnchanged == [][table' = table]_vars

\* a global call: line 54 has added Active to the local frame only
C10_Witness ==
    /\ Cleaned /\ args.country = None
    /\ grouped.frame.columns = <<"Confirmed", "Deaths", "Recovered", "Active">>
    /\ table.columns = RawColumns

----------------------------------------------------------------------------
(* Claims about fit and compare *)

BadBounds(a) == \E i \in DOMAIN a.lbounds : a.lbounds[i] > a.gbounds[i]

C9_FiguresReleased ==
    pc \in {"compare", "fit"} => figures = {}

----------------------------------------------------------------------------
(* Claims about get_data *)

Loaded == pc = "get_data" /\ outcome = "returned"

Normalized == {"Date", "Country", "Confirmed", "Deaths", "Recovered"}

\* the normalized names of the parameters whose label is c
NamesFor(c) ==
    {n \in Normalized :
        \/ n = "Date" /\ args.labels.date = c
        \/ n = "Country" /\ args.labels.country = c
        \/ n = "Confirmed" /\ args.labels.confirmed = c
        \/ n = "Deaths" /\ args.labels.deaths = c
        \/ n = "Recovered" /\ args.labels.recovered = c}

\* C6 as stated: a returned table has exactly the five normalized columns.
C6_ExactlyFiveColumns ==
    Loaded =>
        /\ Len(ret.columns) = 5
        /\ {ret.columns[i] : i \in DOMAIN ret.columns} = Normalized

\* C6 amended: a returned table has one column per source column, in source
\* order: a column named in the mapping carries a normalized name of that
\* label, every other source column is kept under its own name, and exactly
\* one column is Date.
C6_SourceColumnsKept ==
    Loaded =>
        /\ Len(ret.columns) = Len(csv.header)
        /\ \A i \in DOMAIN csv.header :
            IF NamesFor(csv.header[i]) # {}
            THEN ret.columns[i] \in NamesFor(csv.header[i])
            ELSE ret.columns[i] = csv.header[i]
        /\ Cardinality({i \in DOMAIN ret.columns : ret.columns[i] = "Date"}) = 1

\* a source with a renamed date column and a column the mapping does not
\* name, which the returned table still holds
C6_Witness ==
    /\ Loaded
    /\ args.labels.date = "Fecha" /\ args.labels.confirmed = "Confirmed"
    /\ csv.header = <<"Fecha", "Country", "Confirmed", "Deaths", "Recovered", "Lat">>
    /\ ret.columns = <<"Date", "Country", "Confirmed", "Deaths", "Recovered", "Lat">>

\* the normalized names no column carries once the source is renamed
Absent ==
    {n \in Normalized :
        \A i \in DOMAIN csv.header : RenameColumn(csv.header[i], args.labels) # n}

\* C7 as stated: when any of the five columns is absent after renaming the
\* call raises ParseError and returns no table.
C7_ParseErrorOnAbsent ==
    (pc = "get_data" /\ Absent # {}) => (outcome = "ParseError" /\ ret = NoRet)

\* C7 amended: when the Date column is absent after renaming the call
\* raises and returns no table, with KeyError if the source was read; a
\* returned table has its Date column.
C7_FailsOnAbsentDate ==
    /\ (pc = "get_data" /\ "Date" \in Absent) =>
            /\ outcome \in {"KeyError", "IOError", "EmptyDataError"}
            /\ (csv.reachable /\ csv.header # <<>>) => outcome = "KeyError"
            /\ ret = NoRet
    /\ Loaded => "Date" \notin Absent

\* a readable source without the date label: KeyError
C7_Witness ==
    /\ pc = "get_data" /\ outcome = "KeyError"
    /\ args.labels.date = "Fecha"
    /\ csv.header = <<"Country", "Confirmed", "Deaths", "Recovered">>

====
